---- MODULE Spec2Model ----
(***************************************************************************)
(* Model of the calculator in src/app.py: the restricted expression        *)
(* evaluator SafeEvaluator (normalisation, Python's expression parser as   *)
(* reached through ast.parse, the tree walk of _eval_node) and the part of *)
(* CalculatorApp that calls it (display, live preview, history, dialogs,   *)
(* unary operations, number formatting).                                   *)
(*                                                                         *)
(* Strings are sequences of one-character strings.  Numbers are exact      *)
(* rationals n/d with |n|, d <= MaxInt, tagged with the Python type that   *)
(* carries them (bool, int, float), plus the float specials inf, -inf and  *)
(* nan, plus "big" decimals (a digit sequence and a power of ten) for      *)
(* literals the rationals cannot hold.  Arithmetic whose exact result      *)
(* leaves that range raises the marker "Beyond": such expressions are      *)
(* outside the numeric range of the model and are not drawn as inputs.     *)
(***************************************************************************)
EXTENDS Integers, Sequences, FiniteSets, TLC

\* ------------------------------------------------------------------ bounds
MaxInt == 100000000        \* largest numerator / denominator of a rational
MaxLen == 5                \* longest raw input string of the string specs
MaxDisplay == 3            \* longest display the key presses build (Spec)
MaxHist == 2               \* history entries after which "=" is not pressed
MaxLit == 3                \* number of literals the template specs draw from
MaxTyped == 5              \* longest display the key presses build (SpecUnary)
MaxCallers == 2            \* callers of SafeEvaluator.evaluate (SpecCalls)

\* ------------------------------------------------------- program constants
SigDigits == 12            \* precision of f"{value:.12g}"
GroupSize == 3             \* digits per group of f"{n:,}"
FloatMaxExp == 308         \* decimal exponent of the largest finite float
FloatMinExp == 324         \* 10^-324 and below round to 0.0

\* ------------------------------------------------------------ small helpers
Abs(x) == IF x < 0 THEN -x ELSE x

Sgn(x) == IF x < 0 THEN -1 ELSE IF x > 0 THEN 1 ELSE 0

RECURSIVE Gcd(_, _)
Gcd(a, b) == IF b = 0 THEN a ELSE Gcd(b, a % b)

\* a * b stays within MaxInt
Fits(a, b) == a = 0 \/ b = 0 \/ Abs(a) <= MaxInt \div Abs(b)

Digits == {"0", "1", "2", "3", "4", "5", "6", "7", "8", "9"}

DigitVal(c) ==
    CASE c = "0" -> 0 [] c = "1" -> 1 [] c = "2" -> 2 [] c = "3" -> 3
      [] c = "4" -> 4 [] c = "5" -> 5 [] c = "6" -> 6 [] c = "7" -> 7
      [] c = "8" -> 8 [] c = "9" -> 9

DigitChar(n) == <<"0", "1", "2", "3", "4", "5", "6", "7", "8", "9">>[n + 1]

\* the decimal digits of a natural number, most significant first
RECURSIVE NatDigits(_)
NatDigits(n) == IF n < 10 THEN <<n>> ELSE Append(NatDigits(n \div 10), n % 10)

\* the natural number a digit sequence without leading zeros denotes, or -1
\* when it exceeds MaxInt
RECURSIVE DigitsNat(_)
DigitsNat(ds) ==
    IF ds = <<>> THEN 0
    ELSE IF Len(ds) > Len(NatDigits(MaxInt)) THEN -1
    ELSE LET hi == DigitsNat(SubSeq(ds, 1, Len(ds) - 1))
             lo == ds[Len(ds)]
         IN  IF hi < 0 \/ hi > (MaxInt - lo) \div 10 THEN -1 ELSE hi * 10 + lo

\* 10^k, or -1 when it exceeds MaxInt
RECURSIVE Pow10(_)
Pow10(k) ==
    IF k = 0 THEN 1
    ELSE IF k >= Len(NatDigits(MaxInt)) THEN -1
    ELSE LET p == Pow10(k - 1)
         IN  IF p < 0 \/ p > MaxInt \div 10 THEN -1 ELSE p * 10

Min(S) == CHOOSE x \in S : \A y \in S : x <= y
Max(S) == CHOOSE x \in S : \A y \in S : x >= y

\* s without its leading elements of set cs
DropLeading(s, cs) ==
    LET keep == {i \in 1..Len(s) : s[i] \notin cs}
    IN  IF keep = {} THEN <<>> ELSE SubSeq(s, Min(keep), Len(s))

\* s without its trailing elements of set cs
DropTrailing(s, cs) ==
    LET keep == {i \in 1..Len(s) : s[i] \notin cs}
    IN  IF keep = {} THEN <<>> ELSE SubSeq(s, 1, Max(keep))

StripLeadingZeros(ds) == DropLeading(ds, {0})

StripTrailingZeros(ds) == DropTrailing(ds, {0})

Zeros(k) == [i \in 1..k |-> 0]

\* d is a power of two: n/d is then a binary fraction, which a float holds
\* exactly
RECURSIVE IsDyadic(_)
IsDyadic(d) == d = 1 \/ (d % 2 = 0 /\ IsDyadic(d \div 2))

\* ------------------------------------------------------------------ values
\* a finite number n/d carried by Python type k ("bool", "int" or "float")
Fin(k, n, d) == [k |-> k, sp |-> "fin", n |-> n, d |-> d, digs |-> <<>>, e10 |-> 0]

Inf == [k |-> "float", sp |-> "inf", n |-> 1, d |-> 1, digs |-> <<>>, e10 |-> 0]
NegInf == [k |-> "float", sp |-> "inf", n |-> -1, d |-> 1, digs |-> <<>>, e10 |-> 0]
NaN == [k |-> "float", sp |-> "nan", n |-> 0, d |-> 1, digs |-> <<>>, e10 |-> 0]
Complex == [k |-> "complex", sp |-> "fin", n |-> 0, d |-> 1, digs |-> <<>>, e10 |-> 0]

\* sign * digs * 10^e10, digs without leading or trailing zero
Big(k, sign, digs, e10) ==
    [k |-> k, sp |-> "big", n |-> sign, d |-> 1, digs |-> digs, e10 |-> e10]

IsComplex(v) == v.k = "complex"
IsNaN(v) == v.sp = "nan"
IsInf(v) == v.sp = "inf"
IsBig(v) == v.sp = "big"
IsFin(v) == v.sp = "fin" /\ v.k # "complex"
IsZero(v) == IsFin(v) /\ v.n = 0
IsFloat(v) == v.k = "float"
SignOf(v) == Sgn(v.n)

\* the outcome of an operation: a value, or a raised exception
Ok(v) == [exc |-> "", v |-> v]
Raise(e) == [exc |-> e, v |-> NaN]

\* the rational n/d in lowest terms, if the model can hold it
Rat(k, n, d) ==
    LET g == Gcd(Abs(n), Abs(d))
        s == IF d < 0 THEN -1 ELSE 1
        nn == s * (n \div g)
        dd == s * (d \div g)
    IN  IF n = 0 THEN Ok(Fin(k, 0, 1))
        ELSE IF Abs(nn) > MaxInt \/ dd > MaxInt THEN Raise("Beyond")
        ELSE Ok(Fin(k, nn, dd))

\* the type of the result of int/float arithmetic (bool counts as int)
ResKind(l, r) == IF IsFloat(l) \/ IsFloat(r) THEN "float" ELSE "int"

\* ------------------------------------------- operator.* on Python numbers
\* operator.neg
Neg(v) ==
    IF IsComplex(v) \/ IsNaN(v) THEN Ok(v)
    ELSE Ok([v EXCEPT !.n = -v.n, !.k = IF v.k = "bool" THEN "int" ELSE v.k])

\* operator.pos
Pos(v) ==
    IF IsComplex(v) THEN Ok(v)
    ELSE Ok([v EXCEPT !.k = IF v.k = "bool" THEN "int" ELSE v.k])

\* operator.add
OpAdd(l, r) ==
    IF IsBig(l) \/ IsBig(r) THEN Raise("Beyond")
    ELSE IF IsComplex(l) \/ IsComplex(r) THEN Ok(Complex)
    ELSE IF IsNaN(l) \/ IsNaN(r) THEN Ok(NaN)
    ELSE IF IsInf(l) /\ IsInf(r) THEN (IF l.n = r.n THEN Ok(l) ELSE Ok(NaN))
    ELSE IF IsInf(l) THEN Ok(l)
    ELSE IF IsInf(r) THEN Ok(r)
    ELSE IF Fits(l.n, r.d) /\ Fits(r.n, l.d) /\ Fits(l.d, r.d)
         THEN Rat(ResKind(l, r), l.n * r.d + r.n * l.d, l.d * r.d)
         ELSE Raise("Beyond")

\* operator.sub: on these numbers l - r is l + (-r)
OpSub(l, r) == OpAdd(l, Neg(r).v)

\* the number of zeros between the decimal point and the first digit of r/d
RECURSIVE LeadingZeros(_, _)
LeadingZeros(r, d) == IF r * 10 >= d THEN 0 ELSE 1 + LeadingZeros(r * 10, d)

\* the decimal exponent of the leading digit of a nonzero rational n/d
FinExp(n, d) ==
    IF Abs(n) >= d THEN Len(NatDigits(Abs(n) \div d)) - 1
    ELSE -(LeadingZeros(Abs(n), d) + 1)

\* the decimal exponent of the leading digit of a big decimal
BigExp(v) == Len(v.digs) - 1 + v.e10

\* the number of digits before the decimal point of a big decimal
WholeLen(v) == Len(v.digs) + Min({v.e10, 0})

\* a big decimal with a fraction and more digits than a float holds, below
\* 10^16: whether the float nearest to it is an integer is left out of the
\* model
Unrounded(v) == IsBig(v) /\ v.e10 < 0 /\ Len(v.digs) > 15 /\ WholeLen(v) < 17

\* the decimal exponent of the leading digit of a nonzero finite value
DecExp(v) == IF IsBig(v) THEN BigExp(v) ELSE FinExp(v.n, v.d)

\* an int that float() may not convert
IntTooBig(v) == IsBig(v) /\ ~IsFloat(v) /\ BigExp(v) >= FloatMaxExp

\* l * r where l or r is a big decimal: a float product of at least
\* 10^(FloatMaxExp + 1) overflows to an infinity, the other products are
\* left out of the model
BigProduct(l, r) ==
    IF /\ IsBig(l) \/ (IsFin(l) /\ ~IsZero(l))
       /\ IsBig(r) \/ (IsFin(r) /\ ~IsZero(r))
       /\ ResKind(l, r) = "float"
       /\ ~IntTooBig(l) /\ ~IntTooBig(r)
       /\ DecExp(l) + DecExp(r) > FloatMaxExp
    THEN (IF SignOf(l) * SignOf(r) > 0 THEN Ok(Inf) ELSE Ok(NegInf))
    ELSE Raise("Beyond")

\* operator.mul
OpMul(l, r) ==
    IF IsBig(l) \/ IsBig(r) THEN BigProduct(l, r)
    ELSE IF IsComplex(l) \/ IsComplex(r) THEN Ok(Complex)
    ELSE IF IsNaN(l) \/ IsNaN(r) THEN Ok(NaN)
    ELSE IF IsInf(l) \/ IsInf(r)
         THEN (IF IsZero(l) \/ IsZero(r) THEN Ok(NaN)
               ELSE IF SignOf(l) * SignOf(r) > 0 THEN Ok(Inf) ELSE Ok(NegInf))
    ELSE IF Fits(l.n, r.n) /\ Fits(l.d, r.d)
         THEN Rat(ResKind(l, r), l.n * r.n, l.d * r.d)
         ELSE Raise("Beyond")

\* operator.truediv: a zero divisor raises before anything else is looked at
OpTrueDiv(l, r) ==
    IF IsBig(l) \/ IsBig(r) THEN Raise("Beyond")
    ELSE IF IsZero(r) THEN Raise("ZeroDivisionError")
    ELSE IF IsComplex(l) \/ IsComplex(r) THEN Ok(Complex)
    ELSE IF IsNaN(l) \/ IsNaN(r) THEN Ok(NaN)
    ELSE IF IsInf(l) /\ IsInf(r) THEN Ok(NaN)
    ELSE IF IsInf(l) THEN (IF SignOf(l) * SignOf(r) > 0 THEN Ok(Inf) ELSE Ok(NegInf))
    ELSE IF IsInf(r) THEN Ok(Fin("float", 0, 1))
    ELSE IF Fits(l.n, r.d) /\ Fits(l.d, r.n)
         THEN Rat("float", l.n * r.d, l.d * r.n)
         ELSE Raise("Beyond")

\* operator.mod: l - r * floor(l / r), the sign follows the divisor.  When
\* the exact quotient is an integer and an operand is no binary fraction,
\* the rounding of the operands decides between 0 and nearly r: the exact
\* rationals cannot tell, and the case is left out of the model.
OpMod(l, r) ==
    IF IsBig(l) \/ IsBig(r) THEN Raise("Beyond")
    ELSE IF IsZero(r) THEN Raise("ZeroDivisionError")
    ELSE IF IsComplex(l) \/ IsComplex(r) THEN Raise("TypeError")
    ELSE IF IsNaN(l) \/ IsNaN(r) \/ IsInf(l) THEN Ok(NaN)
    ELSE IF IsInf(r)
         THEN (IF IsZero(l) \/ SignOf(l) = SignOf(r)
               THEN Ok([l EXCEPT !.k = "float"]) ELSE Ok(r))
    ELSE IF Fits(l.n, r.d) /\ Fits(l.d, r.n) /\ Fits(l.d, r.d)
         THEN LET num == l.n * r.d * Sgn(r.n)
                  den == l.d * Abs(r.n)
                  q == num \div den
              IN  IF num % den = 0 /\ ~(IsDyadic(l.d) /\ IsDyadic(r.d))
                  THEN Raise("Beyond")
                  ELSE IF Fits(q, r.n) /\ Fits(q * r.n, l.d)
                  THEN Rat(ResKind(l, r), l.n * r.d - q * r.n * l.d, l.d * r.d)
                  ELSE Raise("Beyond")
         ELSE Raise("Beyond")

\* b^e for naturals b >= 2 and e, times acc; -1 when it exceeds MaxInt
RECURSIVE PowNat(_, _, _)
PowNat(b, e, acc) ==
    IF e = 0 THEN acc
    ELSE IF acc > MaxInt \div b THEN -1
    ELSE PowNat(b, e - 1, acc * b)

\* |b|^e for an integer b and a natural e; -1 when it exceeds MaxInt
PowAbs(b, e) == IF Abs(b) <= 1 THEN Abs(b) ELSE PowNat(Abs(b), e, 1)

\* operator.pow (int.__pow__ and float.__pow__)
OpPow(l, r) ==
    IF IsBig(l) \/ IsBig(r) THEN Raise("Beyond")
    ELSE IF IsComplex(l) \/ IsComplex(r) THEN Ok(Complex)
    ELSE IF IsZero(r) THEN Ok(Fin(ResKind(l, r), 1, 1))
    ELSE IF IsNaN(l) THEN Ok(NaN)
    ELSE IF IsNaN(r)
         THEN (IF IsFin(l) /\ l.n = 1 /\ l.d = 1 THEN Ok(Fin("float", 1, 1)) ELSE Ok(NaN))
    ELSE IF IsInf(r)
         THEN LET one == IsFin(l) /\ Abs(l.n) = l.d
                  above == IsInf(l) \/ Abs(l.n) > l.d
              IN  IF one THEN Ok(Fin("float", 1, 1))
                  ELSE IF (r.n > 0) = above THEN Ok(Inf)
                  ELSE Ok(Fin("float", 0, 1))
    ELSE IF IsInf(l)
         THEN (IF r.n < 0 THEN Ok(Fin("float", 0, 1))
               ELSE IF l.n < 0 /\ r.d = 1 /\ r.n % 2 = 1 THEN Ok(NegInf)
               ELSE Ok(Inf))
    ELSE IF r.d # 1
         THEN (IF l.n < 0 THEN Ok(Complex)
               ELSE IF l.n = 0
                    THEN (IF r.n < 0 THEN Raise("ZeroDivisionError")
                          ELSE Ok(Fin("float", 0, 1)))
               ELSE IF l.n = l.d THEN Ok(Fin("float", 1, 1))
               ELSE Raise("Beyond"))
    ELSE IF l.n = 0 /\ r.n < 0 THEN Raise("ZeroDivisionError")
    ELSE LET e == Abs(r.n)
             pn == PowAbs(l.n, e)
             pd == PowAbs(l.d, e)
             s == IF l.n < 0 /\ e % 2 = 1 THEN -1 ELSE 1
         IN  IF pn < 0 \/ pd < 0 THEN Raise("Beyond")
             ELSE IF r.n > 0 THEN Rat(ResKind(l, r), s * pn, pd)
             ELSE Rat("float", s * pd, pn)

\* float(x)
ToFloat(v) ==
    IF IsComplex(v) THEN Raise("TypeError")
    ELSE IF IsBig(v) /\ v.k = "int" /\ BigExp(v) > FloatMaxExp THEN Raise("OverflowError")
    ELSE Ok([v EXCEPT !.k = "float"])

\* ------------------------------------------------------- Python's tokenizer
\* The characters the model of the tokenizer and parser is written for; the
\* letters are chosen so that True is the only keyword they spell and no
\* literal prefix (0x, 0b, 0o), suffix (j) or digit separator (_) is formed.
Letters == {"a", "c", "e", "r", "u", "T"}
Operators == {"+", "-", "*", "/", "%", "(", ")", "."}
Blank == {" ", "\t"}
Alphabet == Digits \cup Letters \cup Operators \cup Blank \cup {"\n", ","}

Tok(t, txt, val) == [t |-> t, txt |-> txt, val |-> val]

\* the index after the longest run of characters of set cs that starts at i
RunEnd(s, i, cs) ==
    LET stop == {j \in i..Len(s) : s[j] \notin cs}
    IN  IF stop = {} THEN Len(s) + 1 ELSE Min(stop)

At(s, i) == IF i >= 1 /\ i <= Len(s) THEN s[i] ELSE ""

DigitSeq(s) == [i \in 1..Len(s) |-> DigitVal(s[i])]

\* s < t in lexicographic order, for digit sequences
RECURSIVE LexLess(_, _)
LexLess(s, t) ==
    IF t = <<>> THEN FALSE
    ELSE IF s = <<>> THEN TRUE
    ELSE IF s[1] # t[1] THEN s[1] < t[1]
    ELSE LexLess(Tail(s), Tail(t))

\* 1.7976931348623158e308 and above become inf when read as a float
FloatMaxDigits == <<1, 7, 9, 7, 6, 9, 3, 1, 3, 4, 8, 6, 2, 3, 1, 5, 8>>
\* 2.4703282292062327e-324 and below become 0.0 when read as a float
FloatMinDigits == <<2, 4, 7, 0, 3, 2, 8, 2, 2, 9, 2, 0, 6, 2, 3, 2, 8>>

\* the value of the decimal sig * 10^e10 (sig without leading and trailing
\* zeros, X the exponent of its first digit, n its number and p the power
\* 10^|e10| where the model holds them), read as Python type k
DecimalValue(k, sig, e10, X, n, p) ==
    IF sig = <<>> THEN Fin(k, 0, 1)
    ELSE IF k = "float" /\ (X > FloatMaxExp
                            \/ (X = FloatMaxExp /\ ~LexLess(sig, FloatMaxDigits)))
         THEN Inf
    ELSE IF k = "float" /\ (X < -FloatMinExp
                            \/ (X = -FloatMinExp /\ LexLess(sig, FloatMinDigits)))
         THEN Fin(k, 0, 1)
    ELSE IF n >= 0 /\ p > 0 /\ e10 >= 0 /\ Fits(n, p) THEN Fin(k, n * p, 1)
    ELSE IF n >= 0 /\ p > 0 /\ e10 < 0 THEN Rat(k, n, p).v
    ELSE Big(k, 1, sig, e10)

\* the decimal with digits all (no leading zero) times 10^shift
ShiftedDecimal(k, all, sig, shift) ==
    DecimalValue(k, sig, Len(all) - Len(sig) + shift,
                 Len(all) - 1 + shift,
                 DigitsNat(sig), Pow10(Abs(Len(all) - Len(sig) + shift)))

\* the number the exponent digits ex denote, MaxInt when they denote more
ExponentValue(e) == IF e < 0 THEN MaxInt ELSE e

\* the value of a decimal literal: integer part ip, fraction fp, exponent
\* digits ex with its sign, read as a float or as an int
LiteralValue(ip, fp, exNeg, ex, isFloat) ==
    ShiftedDecimal(IF isFloat THEN "float" ELSE "int",
                   StripLeadingZeros(DigitSeq(ip \o fp)),
                   StripTrailingZeros(StripLeadingZeros(DigitSeq(ip \o fp))),
                   (IF exNeg THEN -1 ELSE 1)
                       * ExponentValue(DigitsNat(StripLeadingZeros(DigitSeq(ex))))
                   - Len(fp))

\* an integer literal with a leading zero that is not all zeros
BadZero(ip, isFloat) ==
    ~isFloat /\ Len(ip) > 1 /\ ip[1] = "0" /\ \E x \in 1..Len(ip) : ip[x] # "0"

\* the NUMBER token s[i..end-1] with integer part ip, fraction fp and
\* exponent digits ex, or the ERROR token for a literal the tokenizer rejects
NumberToken(s, i, end, ip, fp, exNeg, ex, isFloat) ==
    IF At(s, end) \in Letters \/ BadZero(ip, isFloat)
    THEN [tok |-> Tok("ERROR", <<>>, NaN), next |-> Len(s) + 1]
    ELSE [tok |-> Tok("NUMBER", SubSeq(s, i, end - 1),
                      LiteralValue(ip, fp, exNeg, ex, isFloat)),
          next |-> end]

\* the literal whose integer part ends before j and whose fraction ends
\* before k; sgn is the length of the sign of its exponent, whose digits end
\* before m
ScanExponent(s, i, j, k, sgn, m) ==
    NumberToken(s, i,
                IF At(s, k) = "e" /\ m > k + 1 + sgn THEN m ELSE k,
                SubSeq(s, i, j - 1),
                IF At(s, j) = "." THEN SubSeq(s, j + 1, k - 1) ELSE <<>>,
                At(s, k + 1) = "-",
                IF At(s, k) = "e" /\ m > k + 1 + sgn
                THEN SubSeq(s, k + 1 + sgn, m - 1) ELSE <<>>,
                At(s, j) = "." \/ (At(s, k) = "e" /\ m > k + 1 + sgn))

\* the length of the sign at s[i]
SignLen(s, i) == IF At(s, i) \in {"+", "-"} THEN 1 ELSE 0

ScanFraction(s, i, j, k) ==
    ScanExponent(s, i, j, k, SignLen(s, k + 1),
                 RunEnd(s, k + 1 + SignLen(s, k + 1), Digits))

\* the NUMBER token that starts at s[i] (a digit, or "." before a digit) and
\* the index after it
ScanInteger(s, i, j) ==
    ScanFraction(s, i, j, IF At(s, j) = "." THEN RunEnd(s, j + 1, Digits) ELSE j)

ScanNumber(s, i) == ScanInteger(s, i, RunEnd(s, i, Digits))

\* the parenthesis depth after the operator c
DepthAfter(c, depth) ==
    IF c = "(" THEN depth + 1
    ELSE IF c = ")" /\ depth > 0 THEN depth - 1
    ELSE depth

\* the tokens of s from index i on, depth counting the open parentheses:
\* blanks separate tokens, a newline inside parentheses is a blank, a
\* newline outside them ends the logical line
RECURSIVE Lex(_, _, _), LexAfter(_, _, _)
Lex(s, i, depth) ==
    IF i > Len(s) THEN <<>>
    ELSE IF s[i] \in Blank \/ (s[i] = "\n" /\ depth > 0) THEN Lex(s, i + 1, depth)
    ELSE IF s[i] = "\n"
         THEN LexAfter(s, [tok |-> Tok("NEWLINE", <<>>, NaN), next |-> i + 1], depth)
    ELSE IF s[i] \in Digits \/ (s[i] = "." /\ At(s, i + 1) \in Digits)
         THEN LexAfter(s, ScanNumber(s, i), depth)
    ELSE IF s[i] \in Letters
         THEN LexAfter(s, [tok |-> Tok("NAME", SubSeq(s, i, RunEnd(s, i, Letters \cup Digits) - 1), NaN),
                           next |-> RunEnd(s, i, Letters \cup Digits)], depth)
    ELSE IF s[i] = "." /\ At(s, i + 1) = "." /\ At(s, i + 2) = "."
         THEN LexAfter(s, [tok |-> Tok("OP", <<".", ".", ".">>, NaN), next |-> i + 3], depth)
    ELSE IF s[i] \in {"*", "/"} /\ At(s, i + 1) = s[i]
         THEN LexAfter(s, [tok |-> Tok("OP", <<s[i], s[i]>>, NaN), next |-> i + 2], depth)
    ELSE IF s[i] \in Operators
         THEN LexAfter(s, [tok |-> Tok("OP", <<s[i]>>, NaN), next |-> i + 1],
                       DepthAfter(s[i], depth))
    ELSE <<Tok("ERROR", <<>>, NaN)>>

\* the token r.tok and the tokens of s from r.next on
LexAfter(s, r, depth) == <<r.tok>> \o Lex(s, r.next, depth)

\* ------------------------------------------ ast.parse(expression, mode="eval")
\* Python's expression grammar over the tokens above:
\*   eval    := sum NEWLINE* ENDMARKER
\*   sum     := term (("+" | "-") term)*
\*   term    := factor (("*" | "/" | "//" | "%") factor)*
\*   factor  := ("+" | "-") factor | power
\*   power   := primary ["**" factor]
\*   primary := atom ("(" [sum] ")" | "." NAME)*
\*   atom    := NUMBER | NAME | "True" | "..." | "(" [sum] ")"
\* A starred call argument is the one construct over these tokens that the
\* model rejects and Python parses; it parses to a Call, which _eval_node
\* rejects, so evaluate fails either way.
Constant(val) == [t |-> "Constant", val |-> val]
BinOp(op, left, right) == [t |-> "BinOp", op |-> op, left |-> left, right |-> right]
UnaryOp(op, operand) == [t |-> "UnaryOp", op |-> op, operand |-> operand]
Other(t) == [t |-> t]

Parsed(node, pos) == [ok |-> TRUE, node |-> node, pos |-> pos]
NoParse == [ok |-> FALSE, node |-> Other("None"), pos |-> 0]

IsOp(ts, i, txt) == i <= Len(ts) /\ ts[i].t = "OP" /\ ts[i].txt = txt

\* the ast operator class of a binary operator token
BinOpClass(txt) ==
    CASE txt = <<"+">> -> "Add" [] txt = <<"-">> -> "Sub" [] txt = <<"*">> -> "Mult"
      [] txt = <<"/">> -> "Div" [] txt = <<"%">> -> "Mod" [] txt = <<"*", "*">> -> "Pow"
      [] txt = <<"/", "/">> -> "FloorDiv"

\* the operators between the terms of a sum and between the factors of a term
SumOps == {<<"+">>, <<"-">>}
FlatOps == {<<"+">>, <<"-">>, <<"*">>, <<"/">>, <<"/", "/">>, <<"%">>}
TermOps == {<<"*">>, <<"/">>, <<"/", "/">>, <<"%">>}

\* the parse e of a parenthesised expression, closed by ")" at e.pos
Closed(ts, e) ==
    IF e.ok /\ IsOp(ts, e.pos, <<")">>) THEN Parsed(e.node, e.pos + 1) ELSE NoParse

\* the call whose argument list ends before the position of parse a
CallNode(a) == IF a.ok THEN Parsed(Other("Call"), a.pos) ELSE NoParse

\* base ** exponent
PowNode(b, e) ==
    IF e.ok THEN Parsed(BinOp("Pow", b.node, e.node), e.pos) ELSE NoParse

\* the unary operator txt applied to the base of the power f
SignedBase(txt, f) ==
    IF ~f.ok THEN NoParse
    ELSE IF f.node.t = "BinOp" /\ f.node.op = "Pow"
         THEN Parsed(BinOp("Pow",
                           UnaryOp(IF txt = <<"-">> THEN "USub" ELSE "UAdd", f.node.left),
                           f.node.right), f.pos)
    ELSE Parsed(UnaryOp(IF txt = <<"-">> THEN "USub" ELSE "UAdd", f.node), f.pos)

\* the unary operator txt applied to the parse f
UnaryNode(txt, f) ==
    IF f.ok THEN Parsed(UnaryOp(IF txt = <<"-">> THEN "USub" ELSE "UAdd", f.node), f.pos)
    ELSE NoParse

\* the binary operator txt between the parses l and f
BinNode(txt, l, f) ==
    IF f.ok THEN Parsed(BinOp(BinOpClass(txt), l.node, f.node), f.pos) ELSE NoParse

RECURSIVE ParseSum(_, _), SumRest(_, _), ParseTerm(_, _), TermRest(_, _)
RECURSIVE ParseFactor(_, _), ParsePower(_, _), ParsePrimary(_, _), Trailers(_, _)
RECURSIVE ParseAtom(_, _), PowerRest(_, _)

ParseAtom(ts, i) ==
    IF i > Len(ts) THEN NoParse
    ELSE IF ts[i].t = "NUMBER" THEN Parsed(Constant(ts[i].val), i + 1)
    ELSE IF ts[i].t = "NAME"
         THEN (IF ts[i].txt = <<"T", "r", "u", "e">>
               THEN Parsed(Constant(Fin("bool", 1, 1)), i + 1)
               ELSE Parsed(Other("Name"), i + 1))
    ELSE IF IsOp(ts, i, <<".", ".", ".">>) THEN Parsed(Other("Ellipsis"), i + 1)
    ELSE IF IsOp(ts, i, <<"(">>)
         THEN (IF IsOp(ts, i + 1, <<")">>) THEN Parsed(Other("Tuple"), i + 2)
               ELSE Closed(ts, ParseSum(ts, i + 1)))
    ELSE NoParse

\* the calls and attribute references that follow the parse a
Trailers(ts, a) ==
    IF ~a.ok THEN NoParse
    ELSE IF IsOp(ts, a.pos, <<"(">>)
         THEN Trailers(ts, IF IsOp(ts, a.pos + 1, <<")">>)
                           THEN Parsed(Other("Call"), a.pos + 2)
                           ELSE CallNode(Closed(ts, ParseSum(ts, a.pos + 1))))
    ELSE IF IsOp(ts, a.pos, <<".">>)
         THEN Trailers(ts, IF a.pos + 1 <= Len(ts) /\ ts[a.pos + 1].t = "NAME"
                           THEN Parsed(Other("Attribute"), a.pos + 2)
                           ELSE NoParse)
    ELSE a

ParsePrimary(ts, i) == Trailers(ts, ParseAtom(ts, i))

\* the exponent that may follow the primary b
PowerRest(ts, b) ==
    IF b.ok /\ IsOp(ts, b.pos, <<"*", "*">>)
    THEN PowNode(b, ParseFactor(ts, b.pos + 1))
    ELSE b

ParsePower(ts, i) == PowerRest(ts, ParsePrimary(ts, i))

ParseFactor(ts, i) ==
    IF IsOp(ts, i, <<"+">>) \/ IsOp(ts, i, <<"-">>)
    THEN UnaryNode(ts[i].txt, ParseFactor(ts, i + 1))
    ELSE ParsePower(ts, i)

\* the factors that follow the parse l of a term
TermRest(ts, l) ==
    IF ~l.ok THEN NoParse
    ELSE IF \E o \in TermOps : IsOp(ts, l.pos, o)
         THEN TermRest(ts, BinNode(ts[l.pos].txt, l, ParseFactor(ts, l.pos + 1)))
    ELSE l

ParseTerm(ts, i) == TermRest(ts, ParseFactor(ts, i))

\* the terms that follow the parse l of a sum
SumRest(ts, l) ==
    IF ~l.ok THEN NoParse
    ELSE IF \E o \in SumOps : IsOp(ts, l.pos, o)
         THEN SumRest(ts, BinNode(ts[l.pos].txt, l, ParseTerm(ts, l.pos + 1)))
    ELSE l

ParseSum(ts, i) == SumRest(ts, ParseTerm(ts, i))

\* the parse e of all of the tokens ts, trailing NEWLINE tokens apart
Complete(ts, e) ==
    IF e.ok /\ \A i \in e.pos..Len(ts) : ts[i].t = "NEWLINE" THEN e ELSE NoParse

\* the parse of a token sequence
ParseTokens(ts) == Complete(ts, ParseSum(ts, 1))

\* ast.parse(expression, mode="eval").body, or a SyntaxError
AstParse(s) == ParseTokens(Lex(s, 1, 0))

\* ------------------------------------------------------------------- state
VARIABLES
    display,            \* CalculatorApp.display: the text of the Text widget
    live_result_var,    \* CalculatorApp.live_result_var: the live preview
    history,            \* CalculatorApp.history: (expression, result) pairs
    history_listbox,    \* CalculatorApp.history_listbox: its rows
    dialog,             \* the error dialog the last handler showed, if any
    _binary_ops,        \* SafeEvaluator._binary_ops
    _unary_ops,         \* SafeEvaluator._unary_ops
    expression,         \* the argument of a direct call of SafeEvaluator.evaluate
    outcome,            \* what that call returned or raised
    formatted,          \* _format_number of the value that call returned
    reparsed,           \* SafeEvaluator.evaluate of that text
    calls               \* the calls of SafeEvaluator.evaluate of several callers

vars == <<display, live_result_var, history, history_listbox, dialog,
          _binary_ops, _unary_ops, expression, outcome, formatted, reparsed, calls>>

\* ------------------------------------------------------------ SafeEvaluator
BinaryOpsTable ==
    [c \in {"Add", "Sub", "Mult", "Div", "Pow", "Mod"} |->
        CASE c = "Add" -> "add" [] c = "Sub" -> "sub" [] c = "Mult" -> "mul"
          [] c = "Div" -> "truediv" [] c = "Pow" -> "pow" [] c = "Mod" -> "mod"]

UnaryOpsTable == [c \in {"UAdd", "USub"} |-> IF c = "UAdd" THEN "pos" ELSE "neg"]

\* the call of a function of module operator
ApplyBinary(fn, l, r) ==
    CASE fn = "add" -> OpAdd(l, r) [] fn = "sub" -> OpSub(l, r)
      [] fn = "mul" -> OpMul(l, r) [] fn = "truediv" -> OpTrueDiv(l, r)
      [] fn = "pow" -> OpPow(l, r) [] fn = "mod" -> OpMod(l, r)

ApplyUnary(fn, v) == IF fn = "neg" THEN Neg(v) ELSE Pos(v)

\* SafeEvaluator._eval_node (the parser builds no ast.Expr node in eval mode)
RECURSIVE _eval_node(_)
_eval_node(node) ==
    IF node.t = "BinOp" /\ node.op \in DOMAIN _binary_ops
    THEN LET left == _eval_node(node.left)
         IN  IF left.exc # "" THEN left
             ELSE LET right == _eval_node(node.right)
                  IN  IF right.exc # "" THEN right
                      ELSE ApplyBinary(_binary_ops[node.op], left.v, right.v)
    ELSE IF node.t = "UnaryOp" /\ node.op \in DOMAIN _unary_ops
         THEN LET operand == _eval_node(node.operand)
              IN  IF operand.exc # "" THEN operand
                  ELSE ApplyUnary(_unary_ops[node.op], operand.v)
    ELSE IF node.t = "Constant" /\ node.val.k \in {"bool", "int", "float"}
         THEN (IF Unrounded(node.val) THEN Raise("Beyond") ELSE Ok(node.val))
    ELSE Raise("ValueError")

\* str.replace(old, new) for a one-character old
RECURSIVE Replace(_, _, _)
Replace(s, old, new) ==
    IF s = <<>> THEN <<>>
    ELSE IF Len(s) = 1 THEN (IF s[1] = old THEN new ELSE s)
    ELSE LET half == Len(s) \div 2
         IN  Replace(SubSeq(s, 1, half), old, new)
             \o Replace(SubSeq(s, half + 1, Len(s)), old, new)

\* the characters str.strip() removes from both ends
Whitespace == {" ", "\t", "\n"}

\* str.strip()
Strip(s) == DropTrailing(DropLeading(s, Whitespace), Whitespace)

\* expression.replace(",", ".").strip()
StripOnly(s) == Strip(Replace(s, ",", <<".">>))

\* expression.replace(" ", "").replace(",", ".").strip()
Normalize(s) == Strip(Replace(Replace(s, " ", <<>>), ",", <<".">>))

\* "Ungültiger Ausdruck" and the other texts of the program, in ASCII
MsgInvalid == "Ungueltiger Ausdruck"
MsgUnsupported == "Nicht unterstuetzter Ausdrucksteil"
MsgDivZero == "Division durch 0 ist nicht erlaubt"
MsgSqrt == "Wurzel aus einer negativen Zahl ist nicht definiert"
MsgUnary == "Ungueltige Operation"
MsgLiteral == "invalid literal for int() with base 10"

\* what a call returns (kind "value") or raises (kind "error": the class and
\* text of the exception and the class of its __cause__); kind "beyond" marks
\* a computation outside the numeric range of the model
Returned(v) == [kind |-> "value", v |-> v, exc |-> "", msg |-> "", cause |-> ""]
Raised(exc, msg, cause) ==
    [kind |-> "error", v |-> NaN, exc |-> exc, msg |-> msg, cause |-> cause]
BeyondModel == [kind |-> "beyond", v |-> NaN, exc |-> "", msg |-> "", cause |-> ""]
NotCalled == [kind |-> "none", v |-> NaN, exc |-> "", msg |-> "", cause |-> ""]

\* float(cls._eval_node(tree.body)) for the outcome r of _eval_node and the
\* outcome f of float(), and the except clause of SafeEvaluator.evaluate
Converted(r, f) ==
    IF r.exc = "Beyond" THEN BeyondModel
    ELSE IF r.exc # "" THEN Raised("ValueError", MsgInvalid, r.exc)
    ELSE IF f.exc # "" THEN Raised("ValueError", MsgInvalid, f.exc)
    ELSE Returned(f.v)

\* the value of _eval_node's outcome r as a float
EvaluatedNode(r) == Converted(r, ToFloat(r.v))

\* the evaluation of the outcome tree of ast.parse
EvaluateTree(tree) ==
    IF ~tree.ok THEN Raised("ValueError", MsgInvalid, "SyntaxError")
    ELSE EvaluatedNode(_eval_node(tree.node))

\* SafeEvaluator.evaluate without the return of 0.0 for an empty expression
EvaluateNonEmpty(e) == EvaluateTree(AstParse(e))

\* SafeEvaluator.evaluate after the normalisation to e
EvaluateNormalized(e) ==
    IF e = <<>> THEN Returned(Fin("float", 0, 1)) ELSE EvaluateTree(AstParse(e))

\* SafeEvaluator.evaluate
Evaluate(s) == EvaluateNormalized(Normalize(s))

\* ------------------------------------------- CalculatorApp._format_number
DigitChars(ds) == [i \in 1..Len(ds) |-> DigitChar(ds[i])]

\* cnt further digits of the fraction r/d (0 <= r < d), and what is left
RECURSIVE FracDigits(_, _, _)
FracDigits(r, d, cnt) ==
    IF cnt <= 0 THEN [ds |-> <<>>, rem |-> r]
    ELSE LET rest == FracDigits((r * 10) % d, d, cnt - 1)
         IN  [ds |-> <<(r * 10) \div d>> \o rest.ds, rem |-> rest.rem]

\* a digit sequence plus one in its last place; carry says it became 10^Len
RECURSIVE Increment(_)
Increment(ds) ==
    IF ds = <<>> THEN [ds |-> <<>>, carry |-> TRUE]
    ELSE IF ds[Len(ds)] < 9
         THEN [ds |-> [ds EXCEPT ![Len(ds)] = @ + 1], carry |-> FALSE]
    ELSE LET hi == Increment(SubSeq(ds, 1, Len(ds) - 1))
         IN  [ds |-> hi.ds \o <<0>>, carry |-> hi.carry]

\* digits ds (exponent X of the first) rounded up or left as they are
Rounded(ds, X, up) ==
    LET inc == Increment(ds)
    IN  IF ~up THEN [ds |-> StripTrailingZeros(ds), X |-> X]
        ELSE IF inc.carry THEN [ds |-> <<1>>, X |-> X + 1]
        ELSE [ds |-> StripTrailingZeros(inc.ds), X |-> X]

\* digits ds (exponent X of the first) followed by the remainder rem of a
\* division by d, rounded half to even
RoundedHalfEven(ds, X, rem, d) ==
    Rounded(ds, X, 2 * rem > d \/ (2 * rem = d /\ ds[Len(ds)] % 2 = 1))

\* SigDigits significant digits of a fraction >= 1 with integer digits ip
\* and fraction digits fr
WholeSignificand(d, ip, fr) == RoundedHalfEven(ip \o fr.ds, Len(ip) - 1, fr.rem, d)

\* SigDigits significant digits of a fraction < 1 with lz zeros after the
\* decimal point
SmallSignificand(d, lz, fr) ==
    RoundedHalfEven(SubSeq(fr.ds, lz + 1, Len(fr.ds)), -(lz + 1), fr.rem, d)

\* the first SigDigits digits of the fraction a/d < 1
SmallDigits(a, d, lz) == SmallSignificand(d, lz, FracDigits(a, d, SigDigits + lz))

\* the first SigDigits digits of the fraction a/d >= 1
WholeDigits(a, d, ip) ==
    WholeSignificand(d, ip, FracDigits(a % d, d, SigDigits - Len(ip)))

\* SigDigits significant digits of a big decimal
BigSignificand(v) ==
    LET keep == SubSeq(v.digs, 1, SigDigits)
        rest == SubSeq(v.digs, SigDigits + 1, Len(v.digs))
        up == rest # <<>> /\ (rest[1] > 5
                              \/ (rest[1] = 5 /\ (Len(rest) > 1
                                                  \/ keep[Len(keep)] % 2 = 1)))
    IN  IF Len(v.digs) <= SigDigits THEN [ds |-> v.digs, X |-> BigExp(v)]
        ELSE Rounded(keep, BigExp(v), up)

\* a finite nonzero value rounded to SigDigits significant digits, half to
\* even: the digits without trailing zeros and the exponent of the first
Significand(v) ==
    IF IsBig(v) THEN BigSignificand(v)
    ELSE IF Abs(v.n) >= v.d THEN WholeDigits(Abs(v.n), v.d, NatDigits(Abs(v.n) \div v.d))
    ELSE SmallDigits(Abs(v.n), v.d, LeadingZeros(Abs(v.n), v.d))

\* the text of the digits ds with exponent X of the first, in the fixed or
\* the scientific notation of the g format
FormatDigits(sign, ds, X, ex) ==
    IF X < -4 \/ X >= SigDigits
    THEN sign \o <<ds[1]>>
         \o (IF Len(ds) > 1 THEN <<".">> \o Tail(ds) ELSE <<>>)
         \o <<"e", IF X < 0 THEN "-" ELSE "+">>
         \o (IF Len(ex) < 2 THEN <<"0">> ELSE <<>>) \o ex
    ELSE IF X < 0
         THEN sign \o <<"0", ".">> \o DigitChars(Zeros(-X - 1)) \o ds
    ELSE IF Len(ds) <= X + 1
         THEN sign \o ds \o DigitChars(Zeros(X + 1 - Len(ds)))
    ELSE sign \o SubSeq(ds, 1, X + 1) \o <<".">> \o SubSeq(ds, X + 2, Len(ds))

\* the text of the significand m of a value with sign sign
FormatSignificand(sign, m) ==
    FormatDigits(sign, DigitChars(m.ds), m.X, DigitChars(NatDigits(Abs(m.X))))

\* f"{value:.12g}"
FormatG(v) ==
    IF IsNaN(v) THEN <<"n", "a", "n">>
    ELSE IF IsInf(v)
         THEN (IF v.n < 0 THEN <<"-">> ELSE <<>>) \o <<"i", "n", "f">>
    ELSE IF IsZero(v) THEN <<"0">>
    ELSE FormatSignificand(IF v.n < 0 THEN <<"-">> ELSE <<>>, Significand(v))

\* f"{n:,}" for the natural number with decimal digits ds (no leading zero)
\* (counted from the right, every (GroupSize + 1)-th character is a comma)
Grouped(ds) ==
    LET len == Len(ds) + (Len(ds) - 1) \div GroupSize
    IN  [i \in 1..len |->
            LET j == len + 1 - i
            IN  IF j % (GroupSize + 1) = 0 THEN ","
                ELSE ds[Len(ds) + 1 - (j - j \div (GroupSize + 1))]]

\* 2^53: a float holds every natural number below it exactly
MantissaLimit == <<9, 0, 0, 7, 1, 9, 9, 2, 5, 4, 7, 4, 0, 9, 9, 2>>

\* a < b for the digit sequences of two natural numbers (no leading zero)
DigitsLess(a, b) == Len(a) < Len(b) \/ (Len(a) = Len(b) /\ LexLess(a, b))

\* the digits of n \div 2 and of 2 * n, for the digits ds of n
Halved(ds) ==
    StripLeadingZeros([j \in 1..Len(ds) |->
        ((IF j = 1 THEN 0 ELSE ds[j - 1] % 2) * 10 + ds[j]) \div 2])

Doubled(ds) ==
    (IF ds[1] >= 5 THEN <<1>> ELSE <<>>)
    \o [j \in 1..Len(ds) |->
           ((2 * ds[j]) % 10) + (IF j < Len(ds) /\ ds[j + 1] >= 5 THEN 1 ELSE 0)]

\* a step towards the mantissa of the float nearest to a natural number:
\* its digits ds are halved unless they are below 2^53; k counts the bits
\* shifted out, round is the last of them and sticky says one before it (or
\* a fraction) was set
ShiftedOnce(m) ==
    IF DigitsLess(m.ds, MantissaLimit) THEN m
    ELSE [ds |-> Halved(m.ds), k |-> m.k + 1,
          round |-> m.ds[Len(m.ds)] % 2, sticky |-> m.sticky \/ m.round = 1]

\* n steps, the first half of them taken before the second half is begun
RECURSIVE Shifted(_, _)
ShiftedOn(m, n) == IF m.k >= 0 THEN Shifted(m, n) ELSE m

Shifted(m, n) ==
    IF n = 0 THEN m
    ELSE IF n = 1 THEN ShiftedOnce(m)
    ELSE ShiftedOn(Shifted(m, n \div 2), n - n \div 2)

\* the digits of ds * 2^k
RECURSIVE Scaled(_, _)
ScaledOn(ds, k) == IF Len(ds) > 0 THEN Scaled(ds, k) ELSE ds

Scaled(ds, k) ==
    IF k = 0 THEN ds
    ELSE IF k = 1 THEN Doubled(ds)
    ELSE ScaledOn(Scaled(ds, k \div 2), k - k \div 2)

\* the mantissa m rounded half to even, times 2^k
RoundedMantissa(m) ==
    IF m.round = 1 /\ (m.sticky \/ m.ds[Len(m.ds)] % 2 = 1)
    THEN Scaled(IF Increment(m.ds).carry THEN <<1>> \o Increment(m.ds).ds
                ELSE Increment(m.ds).ds, m.k)
    ELSE Scaled(m.ds, m.k)

\* the digits of the float nearest to the number with integer digits ds,
\* which has a fraction if frac (a number of n digits has at most 4n bits)
NearestFloat(ds, frac) ==
    RoundedMantissa(Shifted([ds |-> ds, k |-> 0, round |-> 0, sticky |-> frac],
                            4 * Max({Len(ds) - 15, 0})))

\* float.is_integer
IsInteger(v) == (IsFin(v) /\ v.d = 1) \/ (IsBig(v) /\ WholeLen(v) >= 17)
                \/ (IsBig(v) /\ v.e10 >= 0)

\* the decimal digits of abs(int(value)) for an integer-valued float
IntDigits(v) ==
    IF IsBig(v)
    THEN DigitChars(NearestFloat(SubSeq(v.digs, 1, WholeLen(v)) \o Zeros(v.e10),
                                 v.e10 < 0))
    ELSE DigitChars(NatDigits(Abs(v.n)))

\* the index of the first c in s, 0 if there is none
Find(s, c, i) ==
    LET at == {j \in i..Len(s) : s[j] = c}
    IN  IF at = {} THEN 0 ELSE Min(at)

\* the thousands separator and the decimal separator of the display
CommaSep == ","
GroupSep == " "
DecimalSep == ","

\* f"{int(int_digits):,}".replace(",", " ") for a digit string
GroupedInt(int_digits) ==
    Replace(Grouped(DigitChars(StripLeadingZeros(
                DigitSeq(SubSeq(int_digits, 1, Len(int_digits) - 1))))
            \o <<int_digits[Len(int_digits)]>>), ",", <<GroupSep>>)

\* the return statements of _format_number after text.partition("."), or
\* the ValueError of int() for an int_part that is no number
Joined(sign, int_part, frac_part) ==
    IF \E i \in 1..Len(int_part) : int_part[i] \notin Digits
    THEN [exc |-> "ValueError", s |-> <<>>]
    ELSE IF frac_part # <<>>
         THEN [exc |-> "", s |-> sign \o GroupedInt(IF int_part = <<>> THEN <<"0">>
                                                    ELSE int_part)
                                 \o <<DecimalSep>> \o frac_part]
    ELSE [exc |-> "", s |-> sign \o GroupedInt(IF int_part = <<>> THEN <<"0">>
                                             ELSE int_part)]

\* text.partition(".") for the text without its sign, dot the index of its
\* first "." (0: there is none)
Partitioned(sign, text, dot) ==
    Joined(sign,
           IF dot = 0 THEN text ELSE SubSeq(text, 1, dot - 1),
           IF dot = 0 THEN <<>> ELSE SubSeq(text, dot + 1, Len(text)))

\* _format_number from the separation of the sign on
Unsigned(sign, text) == Partitioned(sign, text, Find(text, ".", 1))

\* _format_number for a value that is no integer, text its g format
FormattedText(text) ==
    IF Find(text, "e", 1) > 0 THEN [exc |-> "", s |-> text]
    ELSE IF text[1] = "-" THEN Unsigned(<<"-">>, Tail(text))
    ELSE Unsigned(<<>>, text)

\* CalculatorApp._format_number: the text, or the ValueError of int(int_part)
\* when the text of the float is inf or nan
_format_number(value) ==
    IF IsInteger(value)
    THEN [exc |-> "",
          s |-> (IF value.n < 0 THEN <<"-">> ELSE <<>>)
                \o Replace(Grouped(IntDigits(value)), ",", <<GroupSep>>)]
    ELSE FormattedText(FormatG(value))

\* ------------------------------------------------------------ CalculatorApp
\* messagebox.showerror("Fehler", msg) called by handler op; the dialog is
\* modal and closed before the next handler runs
Shown(op, msg) == [op |-> op, msg |-> msg]
NoDialog == [op |-> "", msg |-> ""]

\* the placeholder the live preview shows for a failing expression
Placeholder == <<"...">>

\* CalculatorApp._refresh_live_result: the text it puts in live_result_var
\* when evaluate returned or raised r and _format_number f
LiveText(r, f) == IF r.kind = "value" /\ f.exc = "" THEN f.s ELSE Placeholder

\* _refresh_live_result for a display that is not blank, r the outcome of
\* SafeEvaluator.evaluate for it
LiveResultOf(r) == LiveText(r, _format_number(r.v))

\* the text _refresh_live_result puts in live_result_var for a display
LiveResult(value) ==
    IF Strip(value) = <<>> THEN <<>> ELSE LiveResultOf(Evaluate(Strip(value)))

\* the display is within the numeric range of the model
InModel(value) == Evaluate(Strip(value)).kind # "beyond"

\* _set_display to a value for which SafeEvaluator.evaluate gives r
Displayed(value, r) ==
    /\ r.kind # "beyond"
    /\ display' = value
    /\ live_result_var' = IF Strip(value) = <<>> THEN <<>> ELSE LiveResultOf(r)

\* CalculatorApp._set_display, _refresh_live_result included
_set_display(value) == Displayed(value, Evaluate(Strip(value)))

\* CalculatorApp.append
append(value) ==
    /\ _set_display(display \o value)
    /\ dialog' = NoDialog
    /\ UNCHANGED <<history, history_listbox>>

\* what the Text widget does with a key _handle_key does not handle (the
\* handler returns None, so the default binding inserts the character; the
\* insertion cursor is at the end, where _set_display leaves it)
text_insert(char) ==
    /\ display' = display \o <<char>>
    /\ dialog' = NoDialog
    /\ UNCHANGED <<live_result_var, history, history_listbox>>

\* the text _handle_key appends for a key it handles
KeyText(char) ==
    IF char = "." THEN <<",">>
    ELSE IF char = "^" THEN <<"*", "*">>
    ELSE <<char>>

\* CalculatorApp._handle_key
_handle_key(char) ==
    IF char \in {"0", "1", "2", "3", "4", "5", "6", "7", "8", "9",
                 ",", "+", "-", "*", "/", "(", ")", ".", "^"}
    THEN append(KeyText(char))
    ELSE text_insert(char)

\* CalculatorApp.clear
clear ==
    /\ _set_display(<<>>)
    /\ dialog' = NoDialog
    /\ UNCHANGED <<history, history_listbox>>

\* CalculatorApp.backspace
backspace ==
    /\ _set_display(SubSeq(display, 1, Len(display) - 1))
    /\ dialog' = NoDialog
    /\ UNCHANGED <<history, history_listbox>>

\* the display negate sets for the stripped display current
Negated(current) ==
    IF current = <<>> THEN <<"-">>
    ELSE IF current[1] = "-" THEN Tail(current)
    ELSE <<"-">> \o current

\* CalculatorApp.negate
negate ==
    /\ _set_display(Negated(Strip(display)))
    /\ dialog' = NoDialog
    /\ UNCHANGED <<history, history_listbox>>

\* the handler an exception of class exc with text msg reaches in
\* CalculatorApp.evaluate, as the message of its error dialog
EvaluateDialog(exc, msg) == IF exc = "ZeroDivisionError" THEN MsgDivZero ELSE msg

\* a history that grows at its end: the new row below the older ones
_append_to_history(expr, result_str) ==
    IF expr = <<>> THEN UNCHANGED <<history, history_listbox>>
    ELSE /\ history' = history \o <<<<expr, result_str>>>>
         /\ history_listbox' = history_listbox
                               \o <<expr \o <<" ", "=", " ">> \o result_str>>

\* CalculatorApp._add_to_history
_add_to_history(expr, result_str) ==
    IF expr = <<>> THEN UNCHANGED <<history, history_listbox>>
    ELSE /\ history' = <<<<expr, result_str>>>> \o history
         /\ history_listbox' = <<expr \o <<" ", "=", " ">> \o result_str>>
                               \o history_listbox

\* CalculatorApp.evaluate once SafeEvaluator.evaluate has returned, with
\* display_value the outcome of _format_number
ShowResult(expr, display_value) ==
    IF display_value.exc # ""
    THEN /\ dialog' = Shown("evaluate", EvaluateDialog(display_value.exc, MsgLiteral))
         /\ UNCHANGED <<display, live_result_var, history, history_listbox>>
    ELSE /\ _set_display(display_value.s)
         /\ dialog' = NoDialog
         /\ _add_to_history(expr, display_value.s)

\* CalculatorApp.evaluate for the outcome result of SafeEvaluator.evaluate
EvaluateOutcome(expr, result) ==
    /\ result.kind # "beyond"
    /\ IF result.kind = "error"
       THEN /\ dialog' = Shown("evaluate", EvaluateDialog(result.exc, result.msg))
            /\ UNCHANGED <<display, live_result_var, history, history_listbox>>
       ELSE ShowResult(expr, _format_number(result.v))

\* CalculatorApp.evaluate (the "=" button and the Return key)
evaluate == EvaluateOutcome(Strip(display), Evaluate(Strip(display)))

\* CalculatorApp._recall_history for a double click that selects row idx
\* (0: no row is selected)
_recall_history(idx) ==
    /\ dialog' = NoDialog
    /\ UNCHANGED <<history, history_listbox>>
    /\ IF idx = 0 \/ idx > Len(history) THEN UNCHANGED <<display, live_result_var>>
       ELSE _set_display(history[idx][1])

\* the largest r in lo..hi with r * r <= n
RECURSIVE SqrtSearch(_, _, _)
SqrtSearch(n, lo, hi) ==
    IF lo >= hi THEN lo
    ELSE LET mid == (lo + hi + 1) \div 2
         IN  IF mid * mid <= n THEN SqrtSearch(n, mid, hi)
             ELSE SqrtSearch(n, lo, mid - 1)

\* the root of a perfect square, -1 for another natural number <= MaxInt
ExactRoot(n) ==
    LET r == SqrtSearch(n, 0, IF n < 10001 THEN n ELSE 10001)
    IN  IF r * r = n THEN r ELSE -1

\* math.sqrt: a root that is no rational number is left out of the model
MathSqrt(x) ==
    IF IsNaN(x) THEN Ok(x)
    ELSE IF IsBig(x) THEN (IF x.n < 0 THEN Raise("ValueError") ELSE Raise("Beyond"))
    ELSE IF x.n < 0 THEN Raise("ValueError")
    ELSE IF IsInf(x) THEN Ok(x)
    ELSE IF ExactRoot(x.n) >= 0 /\ ExactRoot(x.d) >= 0
         THEN Ok(Fin("float", ExactRoot(x.n), ExactRoot(x.d)))
    ELSE Raise("Beyond")

\* the function op of apply_reciprocal
Reciprocal(x) ==
    IF IsZero(x) THEN Raise("ZeroDivisionError")
    ELSE OpTrueDiv(Fin("int", 1, 1), x)

\* lambda x: x * x
Square(x) == OpMul(x, x)

\* lambda x: x / 100
Percent(x) == OpTrueDiv(x, Fin("int", 100, 1))

\* func(value) for the four functions the handlers pass to _apply_unary
Call(func, x) ==
    IF func = "math.sqrt" THEN MathSqrt(x)
    ELSE IF func = "op" THEN Reciprocal(x)
    ELSE IF func = "lambda x: x * x" THEN Square(x)
    ELSE Percent(x)

\* the message of the error dialog of _apply_unary for an exception of
\* class exc with text msg; error_msg is "" for None
UnaryDialog(exc, msg, error_msg) ==
    IF exc = "ZeroDivisionError" THEN MsgDivZero
    ELSE IF exc = "ValueError" THEN (IF error_msg = "" THEN MsgUnary ELSE error_msg)
    ELSE msg

\* _apply_unary once func has returned, text the outcome of _format_number
UnaryShown(text, error_msg, op) ==
    IF text.exc # ""
    THEN /\ dialog' = Shown(op, UnaryDialog(text.exc, MsgLiteral, error_msg))
         /\ UNCHANGED <<display, live_result_var>>
    ELSE /\ _set_display(text.s)
         /\ dialog' = NoDialog

\* _apply_unary for the outcome new_value of func
UnaryApplied(new_value, error_msg, op) ==
    /\ new_value.exc # "Beyond"
    /\ IF new_value.exc # ""
       THEN /\ dialog' = Shown(op, UnaryDialog(new_value.exc, "", error_msg))
            /\ UNCHANGED <<display, live_result_var>>
       ELSE UnaryShown(_format_number(new_value.v), error_msg, op)

\* _apply_unary for the outcome value of SafeEvaluator.evaluate
UnaryEvaluated(value, func, error_msg, op) ==
    /\ value.kind # "beyond"
    /\ IF value.kind = "error"
       THEN /\ dialog' = Shown(op, UnaryDialog(value.exc, value.msg, error_msg))
            /\ UNCHANGED <<display, live_result_var>>
       ELSE UnaryApplied(Call(func, value.v), error_msg, op)

\* CalculatorApp._apply_unary, run by the handler named op
_apply_unary(func, error_msg, op) ==
    /\ UNCHANGED <<history, history_listbox>>
    /\ IF Strip(display) = <<>>
       THEN dialog' = NoDialog /\ UNCHANGED <<display, live_result_var>>
       ELSE UnaryEvaluated(Evaluate(Strip(display)), func, error_msg, op)

\* CalculatorApp.apply_sqrt
apply_sqrt == _apply_unary("math.sqrt", MsgSqrt, "apply_sqrt")

\* CalculatorApp.apply_reciprocal
apply_reciprocal == _apply_unary("op", MsgDivZero, "apply_reciprocal")

\* CalculatorApp.apply_square
apply_square == _apply_unary("lambda x: x * x", "", "apply_square")

\* CalculatorApp.apply_percent
apply_percent == _apply_unary("lambda x: x / 100", "", "apply_percent")

\* ------------------------------------------------------- the application
\* the keys pressed in the specification Spec; "a" is a key _handle_key does
\* not handle
Keys == {"0", "/", "a"}

\* no text has been formatted yet
NotFormatted == [exc |-> "none", s |-> <<>>]

\* the callers of SafeEvaluator.evaluate in the specification SpecCalls
Callers == 1..MaxCallers

\* a caller that has not called yet
Idle == [pc |-> "idle", expression |-> <<>>, outcome |-> NotCalled]

\* CalculatorApp.__init__ and the class attributes of SafeEvaluator
InitApp ==
    /\ display = <<>>
    /\ live_result_var = <<>>
    /\ history = <<>>
    /\ history_listbox = <<>>
    /\ dialog = NoDialog
    /\ _binary_ops = BinaryOpsTable
    /\ _unary_ops = UnaryOpsTable

Init ==
    /\ InitApp
    /\ expression = <<>>
    /\ outcome = NotCalled
    /\ formatted = NotFormatted
    /\ reparsed = NotCalled
    /\ calls = [c \in Callers |-> Idle]

\* the handlers of CalculatorApp call SafeEvaluator.evaluate, which changes
\* nothing of the class, and there is no direct caller
EvaluatorIdle ==
    UNCHANGED <<_binary_ops, _unary_ops, expression, outcome, formatted, reparsed, calls>>

\* no handler of CalculatorApp runs
AppIdle == UNCHANGED <<display, live_result_var, history, history_listbox, dialog>>

Next ==
    \/ \E char \in Keys : Len(display) < MaxDisplay /\ _handle_key(char) /\ EvaluatorIdle
    \/ clear /\ EvaluatorIdle
    \/ backspace /\ EvaluatorIdle
    \/ Len(display) <= MaxDisplay /\ negate /\ EvaluatorIdle
    \/ Len(display) <= MaxDisplay /\ Len(history) < MaxHist /\ evaluate /\ EvaluatorIdle
    \/ Len(display) <= MaxDisplay /\ apply_sqrt /\ EvaluatorIdle
    \/ Len(display) <= MaxDisplay /\ apply_reciprocal /\ EvaluatorIdle
    \/ Len(display) <= MaxDisplay /\ apply_square /\ EvaluatorIdle
    \/ Len(display) <= MaxDisplay /\ apply_percent /\ EvaluatorIdle
    \/ \E idx \in 0..Len(history_listbox) : _recall_history(idx) /\ EvaluatorIdle

Spec == Init /\ [][Next]_vars

\* ------------------------------------------------- the unary operations
\* The application with the keys that type large and negative numbers ("e"
\* is a key _handle_key does not handle) and the buttons of the unary
\* operations.
UnaryKeys == {"1", "5", "e", "-"}

NextUnary ==
    \/ \E char \in UnaryKeys : Len(display) < MaxTyped /\ _handle_key(char) /\ EvaluatorIdle
    \/ clear /\ EvaluatorIdle
    \/ Len(display) <= MaxTyped /\ apply_sqrt /\ EvaluatorIdle
    \/ Len(display) <= MaxTyped /\ apply_reciprocal /\ EvaluatorIdle
    \/ Len(display) <= MaxTyped /\ apply_square /\ EvaluatorIdle
    \/ Len(display) <= MaxTyped /\ apply_percent /\ EvaluatorIdle

SpecUnary == Init /\ [][NextUnary]_vars

\* ------------------------------------------------------------ the history
\* The application with the keys that type the expressions "0", "00", ...,
\* which evaluate, and "0/0", "/", ..., which do not; every handler that the
\* buttons, the keys and the history list box reach.
HistoryKeys == {"0", "/"}

NextHistory ==
    \/ \E char \in HistoryKeys : Len(display) < MaxDisplay /\ _handle_key(char) /\ EvaluatorIdle
    \/ clear /\ EvaluatorIdle
    \/ backspace /\ EvaluatorIdle
    \/ Len(display) <= MaxDisplay /\ negate /\ EvaluatorIdle
    \/ Len(display) <= MaxDisplay /\ Len(history) < MaxHist /\ evaluate /\ EvaluatorIdle
    \/ Len(display) <= MaxDisplay /\ apply_sqrt /\ EvaluatorIdle
    \/ Len(display) <= MaxDisplay /\ apply_reciprocal /\ EvaluatorIdle
    \/ Len(display) <= MaxDisplay /\ apply_square /\ EvaluatorIdle
    \/ Len(display) <= MaxDisplay /\ apply_percent /\ EvaluatorIdle
    \/ \E idx \in 0..Len(history_listbox) : _recall_history(idx) /\ EvaluatorIdle

SpecHistory == Init /\ [][NextHistory]_vars

\* ------------------------------------------- calls of SafeEvaluator.evaluate
\* all strings over the alphabet A of length up to n
Strings(A, n) == UNION {[1..k -> A] : k \in 0..n}

\* the alphabets of the raw input strings: names and signs, float literals
\* and divisions, blanks between and around tokens
NameChars == {"T", "r", "u", "e", "-"}
FloatChars == {"3", "4", "e", "/", "-"}
BlankChars == {"1", "+", " ", "\t", "\n"}

\* the number literals of the precedence examples
LiteralList ==
    << <<"2">>, <<"3">>, <<"4">>, <<".", "5">>, <<"0">>, <<"1", "e", "1">> >>
Literals == {LiteralList[i] : i \in 1..MaxLit}

\* the additive and the multiplicative operators
AddOps == {<<"+">>, <<"-">>}
MulOps == {<<"*">>, <<"/">>, <<"%">>}

\* a + b * c, (a + b) * c and -a ** b as raw input strings
SumProduct(a, o1, b, o2, c) == a \o o1 \o b \o o2 \o c
ProductOfSum(a, o1, b, o2, c) == <<"(">> \o a \o o1 \o b \o <<")">> \o o2 \o c
Power(a, b) == a \o <<"*", "*">> \o b
SignedPower(a, b) == <<"-">> \o Power(a, b)

PrecedenceInputs ==
    {SumProduct(a, o1, b, o2, c) :
        a \in Literals, o1 \in AddOps, b \in Literals, o2 \in MulOps, c \in Literals}
    \cup {ProductOfSum(a, o1, b, o2, c) :
        a \in Literals, o1 \in AddOps, b \in Literals, o2 \in MulOps, c \in Literals}
    \cup {Power(a, b) : a \in Literals, b \in Literals}
    \cup {SignedPower(a, b) : a \in Literals, b \in Literals}

\* the raw input strings of the specification SpecEval
EvalInputs ==
    Strings(NameChars, MaxLen) \cup Strings(FloatChars, MaxLen)
    \cup Strings(BlankChars, MaxLen)

\* a call SafeEvaluator.evaluate(s) that returns or raises r
Called(s, r) ==
    /\ r.kind # "beyond"
    /\ expression' = s
    /\ outcome' = r
    /\ formatted' = NotFormatted
    /\ reparsed' = NotCalled
    /\ AppIdle
    /\ UNCHANGED <<_binary_ops, _unary_ops, calls>>

\* the caller calls SafeEvaluator.evaluate(s)
CallEvaluate(s) == Called(s, Evaluate(s))

\* the caller formats the value returned, as CalculatorApp.evaluate does
Format ==
    /\ outcome.kind = "value"
    /\ formatted = NotFormatted
    /\ formatted' = _format_number(outcome.v)
    /\ AppIdle
    /\ UNCHANGED <<_binary_ops, _unary_ops, expression, outcome, reparsed, calls>>

\* the caller feeds the formatted text back into SafeEvaluator.evaluate, as
\* the next "=" does with the display CalculatorApp.evaluate has set
Reevaluate ==
    /\ formatted.exc = ""
    /\ reparsed = NotCalled
    /\ reparsed' = Evaluate(formatted.s)
    /\ AppIdle
    /\ UNCHANGED <<_binary_ops, _unary_ops, expression, outcome, formatted, calls>>

\* one call in a behaviour, of any of the raw input strings, and the round
\* trip of what it returns
NextEval ==
    \/ outcome = NotCalled /\ \E s \in EvalInputs : CallEvaluate(s)
    \/ Format
    \/ Reevaluate

SpecEval == Init /\ [][NextEval]_vars

\* one call in a behaviour, of any of the precedence examples
NextPrecedence == outcome = NotCalled /\ \E s \in PrecedenceInputs : CallEvaluate(s)

SpecPrecedence == Init /\ [][NextPrecedence]_vars

\* ------------------------------------------------------ concurrent callers
\* the arguments of the calls of the specification SpecCalls
CallInputs ==
    {<<"1", "+", "1">>, <<"-", "1">>, <<"2", "*", "*", "3">>, <<"1", "/", "0">>,
     <<"a">>}

\* caller c enters SafeEvaluator.evaluate(s): normalisation and ast.parse
\* work on the caller's own argument
Start(c, s) ==
    /\ calls[c].pc # "running"
    /\ calls' = [calls EXCEPT ![c] = [pc |-> "running", expression |-> s,
                                      outcome |-> NotCalled]]
    /\ AppIdle
    /\ UNCHANGED <<_binary_ops, _unary_ops, expression, outcome, formatted, reparsed>>

\* a call that deletes the entry of ast.Add from the table of the class when
\* it returns
ReturnAndForget(c) ==
    /\ calls[c].pc = "running"
    /\ calls' = [calls EXCEPT ![c] = [pc |-> "returned",
                                      expression |-> calls[c].expression,
                                      outcome |-> Evaluate(calls[c].expression)]]
    /\ _binary_ops' = [x \in DOMAIN _binary_ops \ {"Add"} |-> _binary_ops[x]]
    /\ AppIdle
    /\ UNCHANGED <<_unary_ops, expression, outcome, formatted, reparsed>>

\* the call of caller c walks the tree, reading the operator tables of the
\* class, and returns or raises
Return(c) ==
    /\ calls[c].pc = "running"
    /\ calls' = [calls EXCEPT ![c] = [pc |-> "returned",
                                      expression |-> calls[c].expression,
                                      outcome |-> Evaluate(calls[c].expression)]]
    /\ AppIdle
    /\ UNCHANGED <<_binary_ops, _unary_ops, expression, outcome, formatted, reparsed>>

NextCalls ==
    \/ \E c \in Callers : \E s \in CallInputs : Start(c, s)
    \/ \E c \in Callers : Return(c)

SpecCalls == Init /\ [][NextCalls]_vars

\* ------------------------------------------------------------ properties
\* a value that is neither an infinity nor a NaN
Finite(v) == IsFin(v) \/ IsBig(v)

\* the same kind of outcome with the same value or the same exception
SameOutcome(a, b) == a.kind = b.kind /\ a.v = b.v /\ a.exc = b.exc /\ a.msg = b.msg

\* s without its characters of set cs
DeleteAll(s, cs) == SelectSeq(s, LAMBDA c : c \notin cs)

\* the tree has a division or a modulo whose right operand evaluates to 0
RECURSIVE DividesByZero(_)
DividesByZero(node) ==
    IF node.t = "BinOp"
    THEN \/ /\ node.op \in {"Div", "Mod"}
            /\ _eval_node(node.right).exc = ""
            /\ IsZero(_eval_node(node.right).v)
         \/ DividesByZero(node.left)
         \/ DividesByZero(node.right)
    ELSE IF node.t = "UnaryOp" THEN DividesByZero(node.operand)
    ELSE FALSE

\* the text s is an expression that fails by a division or modulo by zero
ZeroDivision(s) ==
    /\ AstParse(Normalize(s)).ok
    /\ DividesByZero(AstParse(Normalize(s)).node)
    /\ Evaluate(s).cause = "ZeroDivisionError"

\* C1: when "=" fails on a display in which a division or a modulo is applied
\* to a right operand that evaluates to exactly 0, the dialog it shows
\* reports the division by zero and not an invalid expression
DivisionByZeroReported ==
    dialog.op = "evaluate" /\ ZeroDivision(display) => dialog.msg = MsgDivZero

\* The grammar of the specification over the tokens of the tokenizer:
\*   expr    := term (("+" | "-") term)*
\*   term    := factor (("*" | "/" | "%") factor)*
\*   factor  := ("+" | "-")? primary ("**" factor)?
\*   primary := NUMBER | "(" expr ")"
\* Each recogniser gives the index after the phrase that starts at i, 0 when
\* there is none.
RECURSIVE GExpr(_, _), GExprRest(_, _), GTerm(_, _), GTermRest(_, _)
RECURSIVE GFactor(_, _), GPrimary(_, _)

GPrimary(ts, i) ==
    IF i > Len(ts) THEN 0
    ELSE IF ts[i].t = "NUMBER" THEN i + 1
    ELSE IF IsOp(ts, i, <<"(">>)
         THEN LET j == GExpr(ts, i + 1)
              IN  IF j > 0 /\ IsOp(ts, j, <<")">>) THEN j + 1 ELSE 0
    ELSE 0

GFactor(ts, i) ==
    LET j == GPrimary(ts, IF IsOp(ts, i, <<"+">>) \/ IsOp(ts, i, <<"-">>)
                          THEN i + 1 ELSE i)
    IN  IF j > 0 /\ IsOp(ts, j, <<"*", "*">>) THEN GFactor(ts, j + 1) ELSE j

GTermRest(ts, j) ==
    IF j > 0 /\ \E o \in MulOps : IsOp(ts, j, o)
    THEN GTermRest(ts, GFactor(ts, j + 1))
    ELSE j

GTerm(ts, i) == GTermRest(ts, GFactor(ts, i))

GExprRest(ts, j) ==
    IF j > 0 /\ \E o \in AddOps : IsOp(ts, j, o)
    THEN GExprRest(ts, GTerm(ts, j + 1))
    ELSE j

GExpr(ts, i) == GExprRest(ts, GTerm(ts, i))

\* the normalized expression e is derivable from the grammar
Derivable(e) == GExpr(Lex(e, 1, 0), 1) = Len(Lex(e, 1, 0)) + 1

\* C2: a call returns a number only for an input whose normalized form is
\* derivable from the grammar (the empty normalized form apart); every other
\* input, an identifier for one, makes it fail
OnlyGrammarEvaluates ==
    outcome.kind = "value" /\ Normalize(expression) # <<>>
        => Derivable(Normalize(expression))

\* the value of the number literal a
Lit(a) == Constant(ScanNumber(a, 1).tok.val)

\* what the evaluation of a tree returns or raises
ValueOfTree(node) == EvaluateTree(Parsed(node, 0))

\* C3: for number literals a, b, c, an additive operator o1 and a
\* multiplicative operator o2, evaluate("a o1 b o2 c") is a o1 (b o2 c) and
\* evaluate("(a o1 b) o2 c") is (a o1 b) o2 c
MultiplicationFirst ==
    \A a \in Literals, o1 \in AddOps, b \in Literals, o2 \in MulOps, c \in Literals :
        /\ expression = SumProduct(a, o1, b, o2, c)
            => outcome = ValueOfTree(BinOp(BinOpClass(o1), Lit(a),
                                           BinOp(BinOpClass(o2), Lit(b), Lit(c))))
        /\ expression = ProductOfSum(a, o1, b, o2, c)
            => outcome = ValueOfTree(BinOp(BinOpClass(o2),
                                           BinOp(BinOpClass(o1), Lit(a), Lit(b)),
                                           Lit(c)))

\* evaluate("2+3*4") has returned 14.0
MultiplicationFirstWitness ==
    /\ expression = <<"2", "+", "3", "*", "4">>
    /\ outcome = Returned(Fin("float", 14, 1))

\* C4: for number literals a and b, evaluate("-a**b") is -(a**b) and
\* evaluate("a**b") is a**b
PowerBeforeSign ==
    \A a \in Literals, b \in Literals :
        /\ expression = SignedPower(a, b)
            => outcome = ValueOfTree(UnaryOp("USub", BinOp("Pow", Lit(a), Lit(b))))
        /\ expression = Power(a, b)
            => outcome = ValueOfTree(BinOp("Pow", Lit(a), Lit(b)))

\* evaluate("-2**2") has returned -4.0
PowerBeforeSignWitness ==
    /\ expression = <<"-", "2", "*", "*", "2">>
    /\ outcome = Returned(Fin("float", -4, 1))

\* v and w are the same number when rounded to SigDigits significant digits
SameDigits(v, w) ==
    \/ IsZero(v) /\ IsZero(w)
    \/ /\ ~IsZero(v) /\ ~IsZero(w)
       /\ SignOf(v) = SignOf(w)
       /\ Significand(v) = Significand(w)

\* C5: for a finite value that evaluate has returned, _format_number gives a
\* text, and evaluate of that text returns a value equal to the first within
\* SigDigits significant digits
RoundTrip ==
    outcome.kind = "value" /\ Finite(outcome.v) =>
        /\ formatted # NotFormatted => formatted.exc = ""
        /\ reparsed # NotCalled =>
               reparsed.kind = "value" /\ SameDigits(reparsed.v, outcome.v)

\* a value with a fraction, shown with a thousands separator and a decimal
\* comma, has been fed back
RoundTripWitness ==
    /\ reparsed.kind = "value"
    /\ \E i \in 1..Len(formatted.s) : formatted.s[i] = GroupSep
    /\ \E i \in 1..Len(formatted.s) : formatted.s[i] = DecimalSep

\* C6: a call that returns, returns a finite float: no infinity and no NaN
FiniteResult == outcome.kind = "value" => Finite(outcome.v)

\* C7: for a display that evaluates to a finite value v, the reciprocal
\* fails only for v = 0 and then reports the division by zero, the square
\* root fails only for v < 0 and then reports the negative radicand, and
\* the square and the percentage do not fail
UnaryContract ==
    Evaluate(Strip(display)).kind = "value" /\ Finite(Evaluate(Strip(display)).v) =>
        /\ dialog.op = "apply_reciprocal" =>
               IsZero(Evaluate(Strip(display)).v) /\ dialog.msg = MsgDivZero
        /\ dialog.op = "apply_sqrt" =>
               Evaluate(Strip(display)).v.n < 0 /\ dialog.msg = MsgSqrt
        /\ dialog.op \notin {"apply_square", "apply_percent"}

\* C8 as stated: a call has the same outcome as the call with every space,
\* tab and newline of its argument deleted
AllWhitespaceRemoved ==
    outcome # NotCalled =>
        SameOutcome(outcome, Evaluate(DeleteAll(expression, Whitespace)))

\* C8: a call has the same outcome as the call with every space of its
\* argument deleted, and as the call with the spaces, tabs and newlines at
\* the two ends of its argument deleted
SpacesRemoved ==
    outcome # NotCalled =>
        /\ SameOutcome(outcome, Evaluate(DeleteAll(expression, {" "})))
        /\ SameOutcome(outcome, Evaluate(Strip(expression)))

\* evaluate("\t1 1\n") has returned 11.0
SpacesRemovedWitness ==
    /\ expression = <<"\t", "1", " ", "1", "\n">>
    /\ outcome = Returned(Fin("float", 11, 1))

\* C9: a call whose argument is empty or holds only whitespace returns 0.0
BlankIsZero ==
    outcome # NotCalled /\ (\A i \in 1..Len(expression) : expression[i] \in Whitespace)
        => outcome = Returned(Fin("float", 0, 1))

\* evaluate(" \t\n") has returned 0.0
BlankIsZeroWitness ==
    /\ expression = <<" ", "\t", "\n">>
    /\ outcome = Returned(Fin("float", 0, 1))

\* C10: no call changes the operator tables of the class, every call that
\* has returned has the outcome of its own argument, and two calls with the
\* same argument have the same outcome, however the calls interleave
Stateless ==
    /\ _binary_ops = BinaryOpsTable
    /\ _unary_ops = UnaryOpsTable
    /\ \A c \in Callers :
           calls[c].pc = "returned" => calls[c].outcome = Evaluate(calls[c].expression)
    /\ \A c \in Callers, d \in Callers :
           /\ calls[c].pc = "returned" /\ calls[d].pc = "returned"
           /\ calls[c].expression = calls[d].expression
           => calls[c].outcome = calls[d].outcome

\* two callers have called evaluate("1+1"), and both calls have returned 2.0
StatelessWitness ==
    /\ calls[1].pc = "returned" /\ calls[2].pc = "returned"
    /\ calls[1].expression = <<"1", "+", "1">>
    /\ calls[2].expression = <<"1", "+", "1">>
    /\ calls[1].outcome = Returned(Fin("float", 2, 1))

\* C11: whatever the handlers have done, the live preview is the one of the
\* display as it is: empty for a blank display, the formatted value where
\* evaluate succeeds, the placeholder where it fails
LivePreviewCurrent == InModel(display) => live_result_var = LiveResult(display)

\* row i of the list box shows pair i of the history, and every pair has a
\* non-empty expression
HistoryAligned(pairs, rows) ==
    /\ Len(rows) = Len(pairs)
    /\ \A i \in 1..Len(pairs) :
          /\ pairs[i][1] # <<>>
          /\ rows[i] = pairs[i][1] \o <<" ", "=", " ">> \o pairs[i][2]

\* every pair holds the formatted value that its expression evaluates to
HistoryEvaluated(pairs) ==
    \A i \in 1..Len(pairs) :
        /\ pairs[i][2] # Placeholder
        /\ LiveResult(pairs[i][1]) = pairs[i][2]

\* SafeEvaluator.evaluate and _format_number both succeed on expr
Succeeds(expr) ==
    /\ Evaluate(expr).kind = "value"
    /\ _format_number(Evaluate(expr).v).exc = ""

\* the step is a successful "=" on the non-empty expression of the display,
\* and it puts the pair (expression, formatted result) in front of the history
Recorded ==
    /\ evaluate
    /\ Strip(display) # <<>>
    /\ Succeeds(Strip(display))
    /\ display' = _format_number(Evaluate(Strip(display)).v).s
    /\ history' = <<<<Strip(display), display'>>>> \o history
    /\ HistoryEvaluated(history')

\* the step leaves the history alone: it is no "=", or a failing one, which
\* shows its dialog and leaves the display too, or one on a blank display;
\* if it is a recall of row idx, the display shows the expression of pair idx
NotRecorded ==
    /\ history_listbox' = history_listbox
    /\ dialog'.op = "evaluate" => display' = display
    /\ dialog'.op # "evaluate" /\ Strip(display) # <<>> => ~evaluate
    /\ \A idx \in 1..Len(history) :
          display' # history[idx][1] => ~_recall_history(idx)

\* what one step of the application does to the history
HistoryStep ==
    /\ HistoryAligned(history', history_listbox')
    /\ IF history' = history THEN NotRecorded ELSE Recorded

\* C12: every step keeps the history and the list box index-aligned; the
\* history changes in a successful "=" on a non-empty expression only, which
\* puts one pair (expression, formatted result) in front of it; every such
\* "=" does so; a failing "=" leaves the display and the history as they
\* are; a recall of row idx shows the expression of pair idx
HistoryKept == [][HistoryStep]_vars

\* two evaluations are in the history, and the display shows the expression
\* of the newer one, which is not its result
HistoryKeptWitness ==
    /\ Len(history) = MaxHist
    /\ history[1][1] # history[2][1]
    /\ display = history[1][1]
    /\ display # history[1][2]

====
